---- MODULE Spec2Model ----
(***************************************************************************)
(* State-machine model of GetSeasonData.py: the per-session extractors     *)
(* (get_fp_data, get_quali_data, get_race_data), the championship          *)
(* standings (get_driver_standings) and the sequential season loop         *)
(* (get_season_data_with_features).                                        *)
(*                                                                         *)
(* Numbers are exact rationals [n, d] (d > 0, lowest terms); the float NaN *)
(* that pandas uses for "absent" is [n |-> 0, d |-> 0].  A DataFrame is    *)
(* [cols |-> set of column names, rows |-> sequence of rows], a row being  *)
(* a function from the column names to cell values.                        *)
(***************************************************************************)
EXTENDS Integers, Sequences, FiniteSets

VARIABLES
    season,           \* what the data sources hold: sessions and ergast
    rnd,              \* the round the season loop is at
    cumulative_data,  \* the round_data of the rounds done so far
    all_rounds,       \* the round_with_features of the rounds done so far
    printed,          \* the warnings printed so far
    pc,               \* "loop", "returned", or "raised" (an uncaught exception)
    full_season_data, \* the frame returned
    call,             \* a single call of one function: [fn, its arguments]
    ret               \* what that call returned or raised

vars == <<season, rnd, cumulative_data, all_rounds, printed, pc, full_season_data,
          call, ret>>

loopVars == <<season, rnd, cumulative_data, all_rounds, printed, pc, full_season_data>>

---------------------------------------------------------------------------
(* Floats: exact rationals with a NaN                                      *)

NaN == [n |-> 0, d |-> 0]

IsNaN(x) == x.d = 0

Abs(i) == IF i < 0 THEN -i ELSE i

RECURSIVE GCD(_, _)
GCD(a, b) == IF b = 0 THEN a ELSE GCD(b, a % b)

\* the rational n/d (d > 0) in lowest terms
Q(n, d) == LET g == GCD(Abs(n), d) IN [n |-> n \div g, d |-> d \div g]

Num(i) == [n |-> i, d |-> 1]

\* float +, -, *: NaN if either operand is NaN
Add(x, y) == IF IsNaN(x) \/ IsNaN(y) THEN NaN ELSE Q(x.n * y.d + y.n * x.d, x.d * y.d)

Sub(x, y) == IF IsNaN(x) \/ IsNaN(y) THEN NaN ELSE Q(x.n * y.d - y.n * x.d, x.d * y.d)

Mul(x, y) == IF IsNaN(x) \/ IsNaN(y) THEN NaN ELSE Q(x.n * y.n, x.d * y.d)

\* x < y; any comparison with NaN is false
Less(x, y) == ~IsNaN(x) /\ ~IsNaN(y) /\ x.n * y.d < y.n * x.d

\* Series.fillna(other)
FillNa(x, other) == IF IsNaN(x) THEN other ELSE x

RECURSIVE SumRange(_, _, _)
\* the sum of the values present among s[lo..hi], by halves
SumRange(s, lo, hi) ==
    IF lo > hi THEN Num(0)
    ELSE IF lo = hi THEN (IF IsNaN(s[lo]) THEN Num(0) ELSE s[lo])
    ELSE LET mid == (lo + hi) \div 2
         IN Add(SumRange(s, lo, mid), SumRange(s, mid + 1, hi))

\* Series.sum(): NaN is skipped
SumSkipNa(s) == SumRange(s, 1, Len(s))

NotNa(s) == SelectSeq(s, LAMBDA x : ~IsNaN(x))

\* a mean that counts an absent value as an observation of 0
MeanZeroFilled(s) ==
    IF s = <<>> THEN NaN
    ELSE LET t == SumSkipNa(s) IN Q(t.n, t.d * Len(s))

\* Series.mean(): the mean of the values present, NaN when there is none
Mean(s) ==
    LET present == NotNa(s)
    IN IF present = <<>> THEN NaN
       ELSE LET t == SumSkipNa(present) IN Q(t.n, t.d * Len(present))

RECURSIVE MinRange(_, _, _)
\* the least of the values present among s[lo..hi], by halves
MinRange(s, lo, hi) ==
    IF lo > hi THEN NaN
    ELSE IF lo = hi THEN s[lo]
    ELSE LET mid == (lo + hi) \div 2
             l == MinRange(s, lo, mid)
             r == MinRange(s, mid + 1, hi)
         IN IF IsNaN(l) THEN r
            ELSE IF IsNaN(r) \/ ~Less(r, l) THEN l ELSE r

\* Series.min(): the least of the values present, NaN when there is none
MinSkipNa(s) == MinRange(s, 1, Len(s))

\* Series.max() of a series of integers
MaxInt(s) == CHOOSE m \in {s[i] : i \in 1..Len(s)} : \A i \in 1..Len(s) : s[i] <= m

RECURSIVE InsertSorted(_, _, _)
\* x placed after every element that is not behind it (a stable insertion)
InsertSorted(x, s, ascending) ==
    IF s = <<>> THEN <<x>>
    ELSE LET before == IF ascending THEN Less(x, Head(s)) ELSE Less(Head(s), x)
         IN IF before THEN <<x>> \o s
            ELSE <<Head(s)>> \o InsertSorted(x, Tail(s), ascending)

RECURSIVE SortValues(_, _)
\* the values of s (no NaN) in sorted order
SortValues(s, ascending) ==
    IF s = <<>> THEN <<>>
    ELSE InsertSorted(s[Len(s)], SortValues(SubSeq(s, 1, Len(s) - 1), ascending), ascending)

\* rank(method="dense"): 1 + the number of distinct values that are better
RankDense(s, ascending) ==
    [i \in 1..Len(s) |->
        1 + Cardinality({s[j] : j \in {k \in 1..Len(s) :
                IF ascending THEN Less(s[k], s[i]) ELSE Less(s[i], s[k])}})]

\* Series.rank(method="min", ascending=...).astype(int) of a series without
\* NaN: the values are put in order and every value takes the position of
\* the first element of its group of equals.
RankMin(s, ascending) ==
    LET sorted == SortValues(s, ascending)
        first(v) == CHOOSE i \in 1..Len(sorted) :
                        /\ sorted[i] = v
                        /\ \A j \in 1..(i - 1) : sorted[j] # v
    IN [i \in 1..Len(s) |-> first(s[i])]

---------------------------------------------------------------------------
(* DataFrames                                                              *)

\* every driver code the data sources may name, in lexicographic order
\* (groupby and an outer merge order their keys so); DOO is a 2025 driver
\* that mapTeams has no entry for
DriverOrder == <<"DOO", "NOR", "VER">>

Drivers == {DriverOrder[i] : i \in 1..Len(DriverOrder)}

\* the absent cell of a column: NaN, and for the text columns None
NaOf(c) ==
    IF c = "Status" THEN <<>>
    ELSE IF c \in {"Driver", "driverCode", "FinishStatus", "Team"} THEN "None"
    ELSE NaN

\* pd.DataFrame(columns=["Driver"])
EmptyFrame == [cols |-> {"Driver"}, rows |-> <<>>]

\* DataFrame.empty
IsEmpty(df) == df.cols = {} \/ df.rows = <<>>

Column(df, c) == [i \in 1..Len(df.rows) |-> df.rows[i][c]]

Widen(row, cols) == [c \in cols |-> IF c \in DOMAIN row THEN row[c] ELSE NaOf(c)]

JoinRows(l, r) == [c \in DOMAIN l \cup DOMAIN r |-> IF c \in DOMAIN l THEN l[c] ELSE r[c]]

RowsOf(df, on, key) == SelectSeq(df.rows, LAMBDA r : r[on] = key)

KeysOf(df, on) == {df.rows[i][on] : i \in 1..Len(df.rows)}

\* the drivers of S in lexicographic order
SortedKeys(S) == SelectSeq(DriverOrder, LAMBDA d : d \in S)

RECURSIVE Flatten(_)
Flatten(ss) == IF ss = <<>> THEN <<>> ELSE Head(ss) \o Flatten(Tail(ss))

\* the rows a merge makes of left row l: one per matching right row, and
\* l alone, its right-hand cells absent, when no right row matches
MergeLeftRow(l, right, on, cols) ==
    LET matches == RowsOf(right, on, l[on])
    IN IF matches = <<>> THEN <<Widen(l, cols)>>
       ELSE [j \in 1..Len(matches) |-> JoinRows(l, matches[j])]

\* left.merge(right, on=on, how="left"): the left rows in their order
MergeLeft(left, right, on) ==
    LET cols == left.cols \cup right.cols
    IN [cols |-> cols,
        rows |-> Flatten([i \in 1..Len(left.rows) |->
                              MergeLeftRow(left.rows[i], right, on, cols)])]

\* left.merge(right, on=on, how="outer"): the union of the keys, in
\* lexicographic order
MergeOuter(left, right, on) ==
    LET cols == left.cols \cup right.cols
        keys == SortedKeys(KeysOf(left, on) \cup KeysOf(right, on))
        rowsFor(k) ==
            LET ls == RowsOf(left, on, k)
                rs == RowsOf(right, on, k)
            IN IF ls = <<>> THEN [j \in 1..Len(rs) |-> Widen(rs[j], cols)]
               ELSE Flatten([i \in 1..Len(ls) |-> MergeLeftRow(ls[i], right, on, cols)])
    IN [cols |-> cols,
        rows |-> Flatten([i \in 1..Len(keys) |-> rowsFor(keys[i])])]

RECURSIVE UnionCols(_)
UnionCols(frames) ==
    IF frames = <<>> THEN {} ELSE Head(frames).cols \cup UnionCols(Tail(frames))

\* pd.concat(frames, ignore_index=True): the rows of every frame in order,
\* over the union of the columns
Concat(frames) ==
    LET cols == UnionCols(frames)
    IN [cols |-> cols,
        rows |-> Flatten([f \in 1..Len(frames) |->
                     [i \in 1..Len(frames[f].rows) |-> Widen(frames[f].rows[i], cols)]])]

RECURSIVE InsertRow(_, _, _, _)
InsertRow(x, rows, by, ascending) ==
    IF rows = <<>> THEN <<x>>
    ELSE LET h == Head(rows)
             before == \/ ~IsNaN(x[by]) /\ IsNaN(h[by])
                       \/ IF ascending THEN Less(x[by], h[by]) ELSE Less(h[by], x[by])
         IN IF before THEN <<x>> \o rows
            ELSE <<h>> \o InsertRow(x, Tail(rows), by, ascending)

RECURSIVE SortRows(_, _, _)
SortRows(rows, by, ascending) ==
    IF rows = <<>> THEN <<>>
    ELSE InsertRow(rows[Len(rows)],
                   SortRows(SubSeq(rows, 1, Len(rows) - 1), by, ascending), by, ascending)

\* df.sort_values(by=..., ascending=...): absent values last
SortFrame(df, by, ascending) == [df EXCEPT !.rows = SortRows(df.rows, by, ascending)]

\* a call that raised, and a call that returned df
Raised == [raised |-> TRUE]

Returned(df) == [raised |-> FALSE, df |-> df]

---------------------------------------------------------------------------
(* The session extractors.  A session is what fastf1.get_session(...) and  *)
(* load() give: [available |-> FALSE] when load() raises, and otherwise    *)
(* [available |-> TRUE, laps |-> ..., results |-> ...].                    *)

GapColumn(fpsession) == "GapToFastest_" \o fpsession

PositionColumn(fpsession) == "Position_" \o fpsession

PaceColumn(fpsession) == "RacePace_" \o fpsession

\* laps.pick_quicklaps(): the laps the data source classifies as quick
pick_quicklaps(laps) == SelectSeq(laps, LAMBDA l : l.IsQuick)

\* laps.groupby("Driver")["LapTime"].mean().reset_index(): one row for each
\* driver that has a lap in laps
MeanLapTime(laps, column) ==
    LET keys == SortedKeys({laps[i].Driver : i \in 1..Len(laps)})
        times(d) == LET own == SelectSeq(laps, LAMBDA l : l.Driver = d)
                    IN [i \in 1..Len(own) |-> own[i].LapTime]
    IN [cols |-> {"Driver", column},
        rows |-> [i \in 1..Len(keys) |->
                     [c \in {"Driver", column} |->
                         IF c = "Driver" THEN keys[i] ELSE Mean(times(keys[i]))]]]

get_fp_data(session, fpsession) ==
    IF ~session.available THEN Raised
    ELSE
    LET laps == SelectSeq(session.laps, LAMBDA l : ~IsNaN(l.LapTime))
        keys == SortedKeys({laps[i].Driver : i \in 1..Len(laps)})
        \* groupby("Driver").apply(nsmallest(1, "LapTime")): each driver's
        \* fastest lap
        fastest_laps ==
            [i \in 1..Len(keys) |->
                LET own == SelectSeq(laps, LAMBDA l : l.Driver = keys[i])
                IN [Driver |-> keys[i],
                    LapTime |-> MinSkipNa([j \in 1..Len(own) |-> own[j].LapTime])]]
        results == [cols |-> {"Driver"},
                    rows |-> [i \in 1..Len(session.results) |->
                                 [Driver |-> session.results[i].Abbreviation]]]
        merged == MergeLeft([cols |-> {"Driver"},
                             rows |-> [i \in 1..Len(keys) |-> [Driver |-> keys[i]]]],
                            results, "Driver")
        fp_fastest_time == MinSkipNa([i \in 1..Len(keys) |-> fastest_laps[i].LapTime])
        gaps == [i \in 1..Len(keys) |-> Sub(fastest_laps[i].LapTime, fp_fastest_time)]
        positions == RankMin(gaps, TRUE)
        ranked ==
            [cols |-> {"Driver", GapColumn(fpsession), PositionColumn(fpsession)},
             rows |-> [i \in 1..Len(keys) |->
                 [c \in {"Driver", GapColumn(fpsession), PositionColumn(fpsession)} |->
                     IF c = "Driver" THEN merged.rows[i].Driver
                     ELSE IF c = GapColumn(fpsession) THEN gaps[i]
                     ELSE Num(positions[i])]]]
        racepacemean == MeanLapTime(pick_quicklaps(laps), PaceColumn(fpsession))
    IN \* a column assigned from an array of another length raises
       IF Len(merged.rows) # Len(keys) THEN Raised
       ELSE Returned(SortFrame(MergeLeft(ranked, racepacemean, "Driver"),
                               GapColumn(fpsession), TRUE))

get_quali_data(session) ==
    IF ~session.available THEN Raised
    ELSE
    LET results == session.results
        QualiLap(r) == FillNa(FillNa(r.Q3, r.Q2), r.Q1)
        pole_time == MinSkipNa(NotNa([i \in 1..Len(results) |-> results[i].Q3]))
        cols == {"Driver", "Position_Quali", "QualiLap", "GapToPole"}
        quali_data ==
            [cols |-> cols,
             rows |-> [i \in 1..Len(results) |->
                 [c \in cols |->
                     CASE c = "Driver" -> results[i].Abbreviation
                       [] c = "Position_Quali" -> results[i].Position
                       [] c = "QualiLap" -> QualiLap(results[i])
                       [] c = "GapToPole" -> Sub(QualiLap(results[i]), pole_time)]]]
    IN Returned(SortFrame(quali_data, "Position_Quali", TRUE))

\* "needle in s" of two strings, each a sequence of characters
Contains(s, needle) ==
    \E i \in 1..(Len(s) - Len(needle) + 1) : SubSeq(s, i, i + Len(needle) - 1) = needle

StrFinished == <<"F", "i", "n", "i", "s", "h", "e", "d">>

StrLap == <<"L", "a", "p">>

simplify_status(s) ==
    IF Contains(s, StrFinished) THEN "Finished"
    ELSE IF Contains(s, StrLap) THEN "Lapped"
    ELSE "DNF"

\* a race time that leaves the laps a lapped driver did not run out
compute_racetime_unextended(row, laps, quicklaps, winner_time) ==
    IF row.DNF_Dummy = Num(1) THEN NaN
    ELSE IF row.FinishingPosition # Num(1) THEN Add(winner_time, row.Time)
    ELSE winner_time

\* row: a row of results with its DNF_Dummy; laps: every lap of the session
compute_racetime(row, laps, quicklaps, winner_time) ==
    IF row.DNF_Dummy = Num(1) THEN NaN
    ELSE
    LET driver == row.Driver
        driver_laps_all == SelectSeq(laps, LAMBDA l : l.Driver = driver)
        completed_laps == Len(driver_laps_all)
        total_laps == MaxInt([i \in 1..Len(laps) |-> laps[i].LapNumber])
        missing_laps == total_laps - completed_laps
        driver_quicklaps == SelectSeq(quicklaps, LAMBDA l : l.Driver = driver)
        avg_quicklap == Mean([i \in 1..Len(driver_quicklaps) |-> driver_quicklaps[i].LapTime])
        base_time == IF row.FinishingPosition # Num(1)
                     THEN Add(winner_time, row.Time) ELSE winner_time
    IN IF Contains(row.Status, StrLap)
       THEN Add(base_time, Mul(avg_quicklap, Num(missing_laps)))
       ELSE base_time

get_race_data(session) ==
    IF ~session.available THEN Raised
    ELSE
    LET laps == session.laps
        quicklaps == pick_quicklaps(laps)
        pace == MeanLapTime(quicklaps, "RacePace")
        fastest_race_pace == MinSkipNa(Column(pace, "RacePace"))
        race_pace ==
            [cols |-> {"Driver", "RacePace", "GapToFastestRacePace"},
             rows |-> [i \in 1..Len(pace.rows) |->
                 [c \in {"Driver", "RacePace", "GapToFastestRacePace"} |->
                     IF c = "GapToFastestRacePace"
                     THEN Sub(pace.rows[i].RacePace, fastest_race_pace)
                     ELSE pace.rows[i][c]]]]
        results ==
            [i \in 1..Len(session.results) |->
                LET r == session.results[i]
                IN [Driver |-> r.Abbreviation, FinishingPosition |-> r.Position,
                    Status |-> r.Status, Time |-> r.Time,
                    DNF_Dummy |-> IF IsNaN(r.Time) THEN Num(1) ELSE Num(0),
                    FinishStatus |-> simplify_status(r.Status)]]
        winners == SelectSeq(results, LAMBDA r : r.FinishingPosition = Num(1))
        winner_time == winners[1].Time
        cols == {"Driver", "FinishingPosition", "Status", "DNF_Dummy", "FinishStatus",
                 "RaceTime"}
        timed ==
            [cols |-> cols,
             rows |-> [i \in 1..Len(results) |->
                 [c \in cols |->
                     IF c = "RaceTime"
                     THEN compute_racetime(results[i], laps, quicklaps, winner_time)
                     ELSE results[i][c]]]]
    IN \* .values[0] of no row raises
       IF winners = <<>> THEN Raised
       ELSE Returned(SortFrame(MergeLeft(timed, race_pace, "Driver"), "FinishingPosition", TRUE))

---------------------------------------------------------------------------
(* The standings.  ergast is what the Ergast client answers for the        *)
(* season: schedule, the races of the season in order, and for each round  *)
(* race and sprint, each [content |-> <<>>] when there is no such result   *)
(* and [content |-> <<frame>>, round |-> r] otherwise, a frame having the  *)
(* columns driverCode and points.                                          *)

Rename(df, old, new) ==
    [cols |-> (df.cols \ {old}) \cup {new},
     rows |-> [i \in 1..Len(df.rows) |->
                  [c \in (df.cols \ {old}) \cup {new} |->
                      IF c = new THEN df.rows[i][old] ELSE df.rows[i][c]]]]

\* the body of the loop for round r (the 0-based rnd plus one): the rows
\* <<driverCode, points>> of the round, or a raise
RoundResults(ergast, r) ==
    LET race == ergast.rounds[r].race
        sprint == ergast.rounds[r].sprint
        temp == race.content[1]
        merged == MergeLeft(Rename(temp, "points", "points_race"),
                            Rename(sprint.content[1], "points", "points_sprint"),
                            "driverCode")
        points(row) == Add(row.points_race, FillNa(row.points_sprint, Num(0)))
    IN IF race.content = <<>> THEN Raised
       ELSE IF sprint.content # <<>> /\ sprint.round = r
       THEN Returned([cols |-> {"round", "driverCode", "points"},
                      rows |-> [i \in 1..Len(merged.rows) |->
                          [round |-> r, driverCode |-> merged.rows[i].driverCode,
                           points |-> points(merged.rows[i])]]])
       ELSE Returned([cols |-> {"round", "driverCode", "points"},
                      rows |-> [i \in 1..Len(temp.rows) |->
                          [round |-> r, driverCode |-> temp.rows[i].driverCode,
                           points |-> temp.rows[i].points]]])

\* the rounds a loop over the schedule without the break visits
RoundsVisitedWithoutBreak(ergast, round_limit) == 1..Len(ergast.schedule)

\* the rounds the loop over the schedule visits before its break
RoundsVisited(ergast, round_limit) ==
    {r \in 1..Len(ergast.schedule) : r <= round_limit}

get_driver_standings(ergast, round_limit) ==
    LET visited == RoundsVisited(ergast, round_limit)
        last == Cardinality(visited)
        results == Concat([r \in 1..last |-> RoundResults(ergast, r).df])
        drivers == SortedKeys(KeysOf(results, "driverCode"))
        \* results.pivot(index="driverCode", columns="round", values="points")
        cell(d, r) ==
            LET hits == SelectSeq(results.rows, LAMBDA x : x.driverCode = d /\ x.round = r)
            IN IF hits = <<>> THEN NaN ELSE hits[1].points
        duplicated == \E i, j \in 1..Len(results.rows) :
                          /\ i # j
                          /\ results.rows[i].driverCode = results.rows[j].driverCode
                          /\ results.rows[i].round = results.rows[j].round
        total_points(d) == SumSkipNa([r \in 1..last |-> cell(d, r)])
        results_wide ==
            SortRows([i \in 1..Len(drivers) |->
                         [Driver |-> drivers[i], Points |-> total_points(drivers[i])]],
                     "Points", FALSE)
        ranks == RankMin([i \in 1..Len(results_wide) |-> results_wide[i].Points], FALSE)
        standings ==
            [cols |-> {"Driver", "Points", "ChampPosition"},
             rows |-> [i \in 1..Len(results_wide) |->
                          [Driver |-> results_wide[i].Driver,
                           Points |-> results_wide[i].Points,
                           ChampPosition |-> Num(ranks[i])]]]
    IN \* content[0] of an empty answer, pd.concat of no frame and a pivot
       \* over a duplicated (driver, round) all raise
       IF \E r \in visited : RoundResults(ergast, r).raised THEN Raised
       ELSE IF visited = {} THEN Raised
       ELSE IF duplicated THEN Raised
       ELSE Returned(SortFrame(standings, "ChampPosition", TRUE))

---------------------------------------------------------------------------
(* The inputs the checks draw from                                         *)

\* the rounds of a modelled season (round_limit; 12 in the script)
MaxRound == 2

FPNames == <<"FP1", "FP2", "FP3">>

Unavailable == [available |-> FALSE]

\* the orders a result sheet may list drivers in: every sequence of
\* distinct drivers
Orders ==
    {o \in UNION {[1..k -> Drivers] : k \in 1..Len(DriverOrder)} :
        \A i, j \in DOMAIN o : i # j => o[i] # o[j]}

Lap(t, quick) == [LapTime |-> t, IsQuick |-> quick]

\* what one driver may have driven in a practice session (times in tenths
\* of a second): nothing, an untimed lap, and timed laps, quick or not
FPStints ==
    {<<>>,
     <<Lap(NaN, FALSE)>>,
     <<Lap(Num(100), TRUE)>>,
     <<Lap(Num(105), TRUE), Lap(Num(100), FALSE)>>,
     <<Lap(Num(105), TRUE), Lap(Num(108), TRUE), Lap(NaN, FALSE)>>,
     <<Lap(Num(110), FALSE)>>}

FPSessionOf(stint) ==
    [available |-> TRUE,
     laps |-> Flatten([i \in 1..Len(DriverOrder) |->
                 [j \in 1..Len(stint[DriverOrder[i]]) |->
                     [Driver |-> DriverOrder[i],
                      LapTime |-> stint[DriverOrder[i]][j].LapTime,
                      IsQuick |-> stint[DriverOrder[i]][j].IsQuick]]]),
     results |-> [i \in 1..Len(DriverOrder) |-> [Abbreviation |-> DriverOrder[i]]]]

\* the practice sessions that loaded: some driver set a time
FPSessions ==
    {FPSessionOf(stint) : stint \in
        {st \in [Drivers -> FPStints] :
            \E d \in Drivers : \E j \in 1..Len(st[d]) : ~IsNaN(st[d][j].LapTime)}}

\* a driver's Q1, Q2, Q3 times: no time, out in Q1, out in Q2 (one of them
\* quicker in Q2 than anyone in Q3), and two Q3 runners
QualiTimes ==
    {<<NaN, NaN, NaN>>,
     <<Num(910), NaN, NaN>>,
     <<Num(912), Num(905), NaN>>,
     <<Num(911), Num(897), NaN>>,
     <<Num(909), Num(902), Num(899)>>,
     <<Num(908), Num(901), Num(903)>>}

QualiSessionOf(order, times) ==
    [available |-> TRUE,
     results |-> [i \in 1..Len(order) |->
                     [Abbreviation |-> order[i], Position |-> Num(i),
                      Q1 |-> times[i][1], Q2 |-> times[i][2], Q3 |-> times[i][3]]]]

\* the knockout stage a driver reached
Stage(t) == IF ~IsNaN(t[3]) THEN 3 ELSE IF ~IsNaN(t[2]) THEN 2 ELSE 1

\* the qualifying sessions: whoever reached a later stage is classified
\* ahead of whoever went out earlier
QualiSessions ==
    UNION {{QualiSessionOf(o, t) :
               t \in {f \in [1..Len(o) -> QualiTimes] :
                         \A i, j \in 1..Len(o) : i < j => Stage(f[i]) >= Stage(f[j])}} :
           o \in Orders}

StatusFinished == StrFinished

StatusPlus1Lap == <<"+", "1", " ", "L", "a", "p">>

StatusLapped == <<"L", "a", "p", "p", "e", "d">>

StatusRetired == <<"R", "e", "t", "i", "r", "e", "d">>

StatusDisqualified == <<"D", "i", "s", "q", "u", "a", "l", "i", "f", "i", "e", "d">>

\* the status and the recorded gap to the leader (seconds) of a driver
\* behind the winner
Classifications ==
    {[Status |-> StatusFinished, Time |-> Num(20)],
     [Status |-> StatusPlus1Lap, Time |-> Num(95)],
     [Status |-> StatusLapped, Time |-> NaN],
     [Status |-> StatusRetired, Time |-> NaN],
     [Status |-> StatusDisqualified, Time |-> Num(31)]}

\* the winner: classified first, Finished, with the race time
WinnerClassification == [Status |-> StatusFinished, Time |-> Num(5400)]

\* the laps of one driver in a race: n laps numbered 1..n, the odd ones in
\* odd seconds and the even ones in even seconds, the first quick of them
\* being quick laps
RaceStints ==
    {[n |-> 58, odd |-> 92, even |-> 92, quick |-> 58],
     [n |-> 55, odd |-> 92, even |-> 92, quick |-> 50],
     [n |-> 57, odd |-> 93, even |-> 94, quick |-> 3],
     [n |-> 55, odd |-> 95, even |-> 95, quick |-> 0]}

\* the i-th of order is classified i-th with class[i] and drove stint[i]
RaceSessionOf(order, class, stint) ==
    [available |-> TRUE,
     laps |-> Flatten([i \in 1..Len(order) |->
                 [j \in 1..stint[i].n |->
                     [Driver |-> order[i], LapNumber |-> j,
                      LapTime |-> Num(IF j % 2 = 1 THEN stint[i].odd ELSE stint[i].even),
                      IsQuick |-> j <= stint[i].quick]]]),
     results |-> [i \in 1..Len(order) |->
                     [Abbreviation |-> order[i], Position |-> Num(i),
                      Status |-> class[i].Status, Time |-> class[i].Time]]]

\* the races that were run: the first classified is the winner
RaceSessions ==
    UNION {{RaceSessionOf(o, c, st) :
               c \in {f \in [1..Len(o) -> Classifications \cup {WinnerClassification}] :
                         /\ f[1] = WinnerClassification
                         /\ \A i \in 2..Len(o) : f[i] \in Classifications},
               st \in [1..Len(o) -> RaceStints]} : o \in Orders}

\* an Ergast result frame listing the drivers of order, points[i] to the
\* i-th
Sheet(order, points) ==
    [cols |-> {"driverCode", "points"},
     rows |-> [i \in 1..Len(order) |->
                  [driverCode |-> order[i], points |-> Num(points[i])]]]

NoContent == [content |-> <<>>]

Content(r, sheet) == [content |-> <<sheet>>, round |-> r]

\* the main-race results a round may have
RaceSheets ==
    {Sheet(<<"NOR", "VER", "DOO">>, <<25, 18, 0>>),
     Sheet(<<"VER", "NOR", "DOO">>, <<25, 18, 0>>),
     Sheet(<<"NOR", "VER">>, <<25, 18>>),
     Sheet(<<"VER", "DOO">>, <<25, 18>>)}

\* the sprint results a round may have
SprintSheets ==
    {Sheet(<<"NOR", "VER", "DOO">>, <<8, 7, 6>>),
     Sheet(<<"NOR">>, <<8>>),
     Sheet(<<"DOO", "VER">>, <<8, 7>>)}

\* what Ergast may hold for round r: no race result yet, or a race result
\* with or without a sprint
ErgastRounds(r) ==
    {[race |-> NoContent, sprint |-> NoContent]}
    \cup {[race |-> Content(r, rs), sprint |-> NoContent] : rs \in RaceSheets}
    \cup {[race |-> Content(r, rs), sprint |-> Content(r, ss)] :
              rs \in RaceSheets, ss \in SprintSheets}

\* the seasons of n scheduled rounds
ErgastSeasons(n) ==
    {[schedule |-> [r \in 1..n |-> r], rounds |-> rounds] :
        rounds \in {f \in [1..n -> UNION {ErgastRounds(r) : r \in 1..n}] :
                        \A r \in 1..n : f[r] \in ErgastRounds(r)}}

---------------------------------------------------------------------------
(* The season loop, get_season_data_with_features(season, round_limit).    *)
(* world is what the data sources hold: sessions[r] the five sessions of   *)
(* round r, ergast the results Ergast answers with.                        *)

round_limit == MaxRound

mapTeams(driver) ==
    CASE driver = "NOR" -> "McLaren"
      [] driver = "VER" -> "Red Bull"
      [] OTHER -> NaOf("Team")

\* the named aggregations: output column |-> the column it is the mean of
Aggregations ==
    [AvgGapToPole |-> "GapToPole",
     AvgFinishingPosition |-> "FinishingPosition",
     AvgQualiPosition |-> "Position_Quali",
     AvgFP1Position |-> "Position_FP1",
     AvgFP2Position |-> "Position_FP2",
     AvgFP3Position |-> "Position_FP3",
     AvgGaptofastestRacePace |-> "GapToFastestRacePace",
     DNFPercentage |-> "DNF_Dummy",
     AvgFP1Gap |-> "GapToFastest_FP1",
     AvgFP2Gap |-> "GapToFastest_FP2",
     AvgFP3Gap |-> "GapToFastest_FP3"]

\* the five loads of round r, each a frame or a raise: lines 199-204,
\* 210-214 and 216-220
Loads(world, r) ==
    [fp |-> [k \in 1..Len(FPNames) |->
                get_fp_data(world.sessions[r][FPNames[k]], FPNames[k])],
     quali |-> get_quali_data(world.sessions[r].Q),
     race |-> get_race_data(world.sessions[r].R)]

RECURSIVE MergeAllOuter(_)
\* fp_data[0] merged with each of fp_data[1:] in turn
MergeAllOuter(frames) ==
    IF Len(frames) = 1 THEN frames[1]
    ELSE MergeOuter(MergeAllOuter(SubSeq(frames, 1, Len(frames) - 1)),
                    frames[Len(frames)], "Driver")

\* df[column] = value
WithColumn(df, column, value) ==
    [cols |-> df.cols \cup {column},
     rows |-> [i \in 1..Len(df.rows) |->
                  [c \in df.cols \cup {column} |->
                      IF c = column THEN value ELSE df.rows[i][c]]]]

\* the warnings the loads of a round print, in order
Warnings(loads, r) ==
    Flatten([k \in 1..Len(FPNames) |->
                IF loads.fp[k].raised THEN <<[what |-> FPNames[k], round |-> r]>> ELSE <<>>])
    \o (IF loads.quali.raised THEN <<[what |-> "Quali", round |-> r]>> ELSE <<>>)
    \o (IF loads.race.raised THEN <<[what |-> "Race", round |-> r]>> ELSE <<>>)

\* the frame a load leaves: what it returned, or the empty placeholder
FrameOr(load) == IF load.raised THEN EmptyFrame ELSE load.df

\* the merge of lines 222-227 with how="left"
MergeLeftUnlessEmpty(round_data, other) ==
    IF ~IsEmpty(other) THEN MergeLeft(round_data, other, "Driver") ELSE round_data

\* race_data outer-merged with other where other is not empty
MergeUnlessEmpty(round_data, other) ==
    IF ~IsEmpty(other) THEN MergeOuter(round_data, other, "Driver") ELSE round_data

\* the practice tables that loaded, merged
MergePractice(fp_data) ==
    IF fp_data # <<>> THEN MergeAllOuter(fp_data) ELSE EmptyFrame

\* round_data of round r, lines 206-227: the race table, outer-merged with
\* the qualifying table and with the merged practice tables
Assemble(loads, r) ==
    WithColumn(
        MergeUnlessEmpty(
            MergeUnlessEmpty(FrameOr(loads.race), FrameOr(loads.quali)),
            MergePractice(Flatten([k \in 1..Len(FPNames) |->
                IF loads.fp[k].raised THEN <<>> ELSE <<loads.fp[k].df>>]))),
        "Round", Num(r))

RoundData(world, r) == Assemble(Loads(world, r), r)

\* season_to_date.groupby("Driver").agg(...).reset_index(): one row for each
\* driver, every aggregation the mean of its column over the driver's rows;
\* an aggregation of a column the frame does not have raises KeyError
GroupByMean(season_to_date) ==
    LET keys == SortedKeys(KeysOf(season_to_date, "Driver"))
        outs == DOMAIN Aggregations
        value(d, out) ==
            LET own == RowsOf(season_to_date, "Driver", d)
            IN Mean([i \in 1..Len(own) |-> own[i][Aggregations[out]]])
    IN IF \E out \in outs : Aggregations[out] \notin season_to_date.cols THEN Raised
       ELSE Returned([cols |-> {"Driver"} \cup outs,
                      rows |-> [i \in 1..Len(keys) |->
                          [c \in {"Driver"} \cup outs |->
                              IF c = "Driver" THEN keys[i] ELSE value(keys[i], c)]]])

\* rolling_features with the Team column
WithTeam(df) ==
    [cols |-> df.cols \cup {"Team"},
     rows |-> [i \in 1..Len(df.rows) |->
                  [c \in df.cols \cup {"Team"} |->
                      IF c = "Team" THEN mapTeams(df.rows[i].Driver) ELSE df.rows[i][c]]]]

\* the history the rolling features of a round are computed from
SeasonToDate(history) == Concat(history)

\* rolling_features after the try of lines 251-255
WithStandings(rolling_features, standings) ==
    IF standings.raised THEN rolling_features
    ELSE MergeLeft(rolling_features, standings.df, "Driver")

\* line 257 with how="outer"
JoinFeaturesOuter(round_data, rolling_features) ==
    IF ~IsEmpty(rolling_features) THEN MergeOuter(round_data, rolling_features, "Driver")
    ELSE round_data

\* line 257
JoinFeatures(round_data, rolling_features) ==
    IF ~IsEmpty(rolling_features) THEN MergeLeft(round_data, rolling_features, "Driver")
    ELSE round_data

\* lines 235-257 with the standings call outside its try
FeaturedUnguarded(round_data, grouped, standings) ==
    IF grouped.raised \/ standings.raised THEN [raised |-> TRUE]
    ELSE [raised |-> FALSE, standings_failed |-> FALSE,
          frame |-> JoinFeatures(round_data, WithStandings(WithTeam(grouped.df), standings))]

\* lines 235-257, given the aggregation and the standings call
Featured(round_data, grouped, standings) ==
    IF grouped.raised THEN [raised |-> TRUE]
    ELSE [raised |-> FALSE, standings_failed |-> standings.raised,
          frame |-> JoinFeatures(round_data, WithStandings(WithTeam(grouped.df), standings))]

\* lines 229-257 for round r, history being cumulative_data with round_data
\* appended: [raised, standings_failed, frame]
RoundWithFeatures(world, history, r) ==
    IF IsEmpty(SeasonToDate(history)) \/ "Driver" \notin SeasonToDate(history).cols
    THEN [raised |-> FALSE, standings_failed |-> FALSE, frame |-> history[Len(history)]]
    ELSE Featured(history[Len(history)], GroupByMean(SeasonToDate(history)),
                  get_driver_standings(world.ergast, r))

\* one pass of the loop body, lines 197-258
LoopBody(world, cumulative, loads, r) ==
    [history |-> Append(cumulative, Assemble(loads, r)),
     warnings |-> Warnings(loads, r),
     body |-> RoundWithFeatures(world, Append(cumulative, Assemble(loads, r)), r)]

Round ==
    /\ pc = "loop"
    /\ rnd <= round_limit
    /\ \E step \in {LoopBody(season, cumulative_data, Loads(season, rnd), rnd)} :
          /\ cumulative_data' = step.history
          /\ IF step.body.raised
             THEN /\ printed' = printed \o step.warnings
                  /\ pc' = "raised"
                  /\ UNCHANGED <<rnd, all_rounds>>
             ELSE /\ printed' = printed \o step.warnings
                         \o (IF step.body.standings_failed
                             THEN <<[what |-> "standings", round |-> rnd]>> ELSE <<>>)
                  /\ all_rounds' = Append(all_rounds, step.body.frame)
                  /\ rnd' = rnd + 1
                  /\ pc' = pc
    /\ UNCHANGED <<season, full_season_data, call, ret>>

\* after the loop, lines 260-261
Return ==
    /\ pc = "loop"
    /\ rnd > round_limit
    /\ full_season_data' = Concat(all_rounds)
    /\ pc' = "returned"
    /\ UNCHANGED <<season, rnd, cumulative_data, all_rounds, printed, call, ret>>

---------------------------------------------------------------------------
(* The seasons the loop is run on                                          *)

\* three drivers, two of them level on the fastest time
PracticeFull ==
    FPSessionOf([d \in Drivers |->
        CASE d = "NOR" -> <<Lap(Num(100), TRUE)>>
          [] d = "VER" -> <<Lap(Num(105), TRUE), Lap(Num(100), FALSE)>>
          [] d = "DOO" -> <<Lap(Num(105), TRUE), Lap(Num(108), TRUE), Lap(NaN, FALSE)>>])

\* DOO did not drive and NOR set no quick lap
PracticeTwo ==
    FPSessionOf([d \in Drivers |->
        CASE d = "NOR" -> <<Lap(Num(110), FALSE)>>
          [] d = "VER" -> <<Lap(Num(100), TRUE)>>
          [] d = "DOO" -> <<>>])

QualiFull ==
    QualiSessionOf(<<"NOR", "VER", "DOO">>,
                   <<(<<Num(909), Num(902), Num(899)>>),
                     (<<Num(908), Num(901), Num(903)>>),
                     (<<Num(912), Num(905), NaN>>)>>)

\* DOO took no part in qualifying
QualiTwo ==
    QualiSessionOf(<<"VER", "NOR">>,
                   <<(<<Num(908), Num(901), Num(903)>>), (<<Num(910), NaN, NaN>>)>>)

ShortStints ==
    <<[n |-> 3, odd |-> 92, even |-> 93, quick |-> 3],
      [n |-> 3, odd |-> 93, even |-> 94, quick |-> 2],
      [n |-> 2, odd |-> 95, even |-> 95, quick |-> 0]>>

RaceFull ==
    RaceSessionOf(<<"NOR", "VER", "DOO">>,
                  <<WinnerClassification,
                    [Status |-> StatusFinished, Time |-> Num(20)],
                    [Status |-> StatusPlus1Lap, Time |-> Num(95)]>>,
                  ShortStints)

\* a race without DOO
RaceTwo ==
    RaceSessionOf(<<"VER", "NOR">>,
                  <<WinnerClassification, [Status |-> StatusRetired, Time |-> NaN]>>,
                  SubSeq(ShortStints, 1, 2))

Weekend(fp1, fp2, fp3, q, r) == [FP1 |-> fp1, FP2 |-> fp2, FP3 |-> fp3, Q |-> q, R |-> r]

FullWeekend == Weekend(PracticeFull, PracticeTwo, PracticeFull, QualiFull, RaceFull)

\* a weekend that was not run, or not recorded
NoWeekend == Weekend(Unavailable, Unavailable, Unavailable, Unavailable, Unavailable)

\* a weekend DOO took no part in
TwoDriverWeekend == Weekend(PracticeTwo, PracticeTwo, PracticeTwo, QualiTwo, RaceTwo)

\* the weekends with something missing: practice sessions (a sprint weekend
\* has FP1 only), qualifying, the race, or a driver in one session
DisruptedWeekends ==
    {Weekend(PracticeFull, Unavailable, PracticeTwo, QualiFull, RaceFull),
     Weekend(PracticeFull, Unavailable, Unavailable, QualiFull, RaceFull),
     Weekend(Unavailable, Unavailable, PracticeFull, QualiFull, RaceFull),
     Weekend(PracticeFull, PracticeTwo, PracticeFull, Unavailable, RaceFull),
     Weekend(PracticeFull, PracticeTwo, PracticeFull, QualiTwo, RaceFull),
     Weekend(PracticeFull, PracticeTwo, PracticeFull, QualiFull, Unavailable),
     Weekend(PracticeFull, PracticeTwo, PracticeFull, QualiFull, RaceTwo)}

\* what Ergast holds of round r: nothing yet, a race, a race and a sprint
ResultsOf(kind, r) ==
    CASE kind = "none" -> [race |-> NoContent, sprint |-> NoContent]
      [] kind = "race" ->
            [race |-> Content(r, Sheet(<<"NOR", "VER", "DOO">>, <<25, 18, 0>>)),
             sprint |-> NoContent]
      [] kind = "sprint" ->
            [race |-> Content(r, Sheet(<<"VER", "NOR", "DOO">>, <<25, 18, 0>>)),
             sprint |-> Content(r, Sheet(<<"NOR", "VER", "DOO">>, <<8, 7, 6>>))]
      [] kind = "two" ->
            [race |-> Content(r, Sheet(<<"VER", "NOR">>, <<25, 18>>)),
             sprint |-> NoContent]

\* what the sources may hold of a round: a full weekend with any results,
\* a disrupted weekend with its race result, a weekend of two drivers, and
\* nothing at all
RoundKinds ==
    {[sessions |-> FullWeekend, results |-> k] : k \in {"none", "race", "sprint"}}
    \cup {[sessions |-> w, results |-> "race"] : w \in DisruptedWeekends}
    \cup {[sessions |-> TwoDriverWeekend, results |-> "two"]}
    \cup {[sessions |-> NoWeekend, results |-> "none"]}

\* the season that holds kinds[r] of round r
SeasonOf(kinds) ==
    [sessions |-> [r \in 1..Len(kinds) |-> kinds[r].sessions],
     ergast |-> [schedule |-> [r \in 1..Len(kinds) |-> r],
                 rounds |-> [r \in 1..Len(kinds) |-> ResultsOf(kinds[r].results, r)]]]

Seasons == {SeasonOf(kinds) : kinds \in [1..MaxRound -> RoundKinds]}

Init ==
    /\ season \in Seasons
    /\ rnd = 1
    /\ cumulative_data = <<>>
    /\ all_rounds = <<>>
    /\ printed = <<>>
    /\ pc = "loop"
    /\ full_season_data = EmptyFrame
    /\ call = [fn |-> "none"]
    /\ ret = [pending |-> TRUE]

Next == Round \/ Return

Spec == Init /\ [][Next]_vars

---------------------------------------------------------------------------
(* Single calls of the four functions                                      *)

NoCall == [fn |-> "none"]

Pending == [pending |-> TRUE]

Calls ==
    {[fn |-> "get_fp_data", session |-> x, fpsession |-> FPNames[k]] :
        x \in FPSessions \cup {Unavailable}, k \in 1..Len(FPNames)}
    \cup {[fn |-> "get_quali_data", session |-> x] : x \in QualiSessions \cup {Unavailable}}
    \cup {[fn |-> "get_race_data", session |-> x] : x \in RaceSessions \cup {Unavailable}}
    \cup UNION {{[fn |-> "get_driver_standings", ergast |-> e, round_limit |-> n] :
                    e \in ErgastSeasons(m), n \in 1..MaxRound} :
                m \in 1..MaxRound}

\* the season loop has not been started
LoopIdle ==
    /\ season = [sessions |-> <<>>, ergast |-> [schedule |-> <<>>, rounds |-> <<>>]]
    /\ rnd = 1
    /\ cumulative_data = <<>>
    /\ all_rounds = <<>>
    /\ printed = <<>>
    /\ pc = "idle"
    /\ full_season_data = EmptyFrame

InitCalls ==
    /\ LoopIdle
    /\ call \in Calls
    /\ ret = Pending

CallFP ==
    /\ call.fn = "get_fp_data"
    /\ ret = Pending
    /\ ret' = get_fp_data(call.session, call.fpsession)
    /\ UNCHANGED <<call, loopVars>>

CallQuali ==
    /\ call.fn = "get_quali_data"
    /\ ret = Pending
    /\ ret' = get_quali_data(call.session)
    /\ UNCHANGED <<call, loopVars>>

CallRace ==
    /\ call.fn = "get_race_data"
    /\ ret = Pending
    /\ ret' = get_race_data(call.session)
    /\ UNCHANGED <<call, loopVars>>

CallStandings ==
    /\ call.fn = "get_driver_standings"
    /\ ret = Pending
    /\ ret' = get_driver_standings(call.ergast, call.round_limit)
    /\ UNCHANGED <<call, loopVars>>

NextCalls == CallFP \/ CallQuali \/ CallRace \/ CallStandings

SpecCalls == InitCalls /\ [][NextCalls]_vars

---------------------------------------------------------------------------
(* Properties of the single calls                                          *)

\* the call of fn has returned a frame
ReturnedFrom(fn) == call.fn = fn /\ "raised" \in DOMAIN ret /\ ~ret.raised

GapColumns ==
    {"GapToPole", "GapToFastestRacePace"} \cup {GapColumn(FPNames[k]) : k \in 1..Len(FPNames)}

\* C3: in every session table of get_fp_data, get_quali_data and
\* get_race_data, every gap that is present is >= 0, and the least of the
\* gaps present is exactly 0.
C3_GapSemantics ==
    \A fn \in {"get_fp_data", "get_quali_data", "get_race_data"} :
        ReturnedFrom(fn) =>
            \A c \in GapColumns \cap ret.df.cols :
                LET gaps == NotNa(Column(ret.df, c))
                IN /\ \A i \in 1..Len(gaps) : ~Less(gaps[i], Num(0))
                   /\ gaps # <<>> => \E i \in 1..Len(gaps) : gaps[i] = Num(0)

\* the points of driver d in a result (0 where d has no row in it)
PointsIn(result, d) ==
    IF result.content = <<>> THEN 0
    ELSE LET rows == result.content[1].rows
             own == {i \in 1..Len(rows) : rows[i].driverCode = d}
         IN IF own = {} THEN 0 ELSE rows[CHOOSE i \in own : TRUE].points.n

RECURSIVE PointsThrough(_, _, _)
\* main-race plus sprint points of d over rounds 1..n
PointsThrough(ergast, d, n) ==
    IF n = 0 THEN 0
    ELSE PointsThrough(ergast, d, n - 1)
         + PointsIn(ergast.rounds[n].race, d) + PointsIn(ergast.rounds[n].sprint, d)

HasResult(ergast, d, n) ==
    \E r \in 1..n : \E res \in {ergast.rounds[r].race, ergast.rounds[r].sprint} :
        res.content # <<>> /\ \E i \in 1..Len(res.content[1].rows) :
                                  res.content[1].rows[i].driverCode = d

\* C4: the Points get_driver_standings returns for a driver are the sum,
\* over the rounds up to the limit, of the driver's main-race and sprint
\* points, a race without the driver counting 0: no point is lost or
\* counted twice.
C4_PointsAdditive ==
    ReturnedFrom("get_driver_standings") =>
        LET n == Cardinality(RoundsVisited(call.ergast, call.round_limit))
        IN \A d \in Drivers :
               HasResult(call.ergast, d, n) =>
                   \E i \in 1..Len(ret.df.rows) :
                       /\ ret.df.rows[i].Driver = d
                       /\ ret.df.rows[i].Points = Num(PointsThrough(call.ergast, d, n))

\* every row's rank is 1 + the number of rows with a strictly better value
MinRanked(df, value, rank, ascending) ==
    \A i \in 1..Len(df.rows) :
        df.rows[i][rank] =
            Num(1 + Cardinality({j \in 1..Len(df.rows) :
                    IF ascending THEN Less(df.rows[j][value], df.rows[i][value])
                    ELSE Less(df.rows[i][value], df.rows[j][value])}))

\* C5: ChampPosition (by Points, most first) and Position_<FP> (by gap,
\* least first) are 1 + the number of drivers with a strictly better value,
\* so equal values share the least rank and the next value skips.
C5_MinRankTies ==
    /\ ReturnedFrom("get_driver_standings") =>
           MinRanked(ret.df, "Points", "ChampPosition", FALSE)
    /\ ReturnedFrom("get_fp_data") =>
           MinRanked(ret.df, GapColumn(call.fpsession), PositionColumn(call.fpsession), TRUE)

\* two drivers tied on 43 points are both first and the third driver is third
C5_Witness ==
    /\ ReturnedFrom("get_driver_standings")
    /\ Len(ret.df.rows) = 3
    /\ \E i, j, k \in 1..3 :
           /\ i # j
           /\ ret.df.rows[i].Points = Num(43) /\ ret.df.rows[i].ChampPosition = Num(1)
           /\ ret.df.rows[j].Points = Num(43) /\ ret.df.rows[j].ChampPosition = Num(1)
           /\ ret.df.rows[k].ChampPosition = Num(3)

\* the laps driver d completed in the session
CompletedLaps(session, d) ==
    Cardinality({i \in 1..Len(session.laps) : session.laps[i].Driver = d})

\* what the race time of result row r should be, given the class and the
\* pace the returned table gives its driver
ExpectedRaceTime(session, r, class, pace) ==
    LET leader == CHOOSE i \in 1..Len(session.results) :
                      session.results[i].Position = Num(1)
        leader_time == session.results[leader].Time
        most == CHOOSE m \in {CompletedLaps(session, d) : d \in Drivers} :
                    \A d \in Drivers : CompletedLaps(session, d) <= m
        missing_laps == most - CompletedLaps(session, r.Abbreviation)
    IN IF IsNaN(r.Time) THEN NaN
       ELSE IF r.Position = Num(1) THEN leader_time
       ELSE IF class \in {"Finished", "DNF"} THEN Add(leader_time, r.Time)
       ELSE Add(Add(leader_time, r.Time), Mul(Num(missing_laps), pace))

\* C6: RaceTime is absent when the elapsed time is absent, the leader's
\* time for the leader, leader's time + gap for a status that classifies to
\* Finished or DNF, and that plus missing laps x the driver's own mean
\* quick-lap pace for a status that classifies to Lapped.
C6_RaceTime ==
    ReturnedFrom("get_race_data") =>
        /\ Len(ret.df.rows) = Len(call.session.results)
        /\ \A i \in 1..Len(call.session.results) :
               LET r == call.session.results[i]
               IN \E k \in 1..Len(ret.df.rows) :
                      /\ ret.df.rows[k].Driver = r.Abbreviation
                      /\ ret.df.rows[k].RaceTime =
                             ExpectedRaceTime(call.session, r, ret.df.rows[k].FinishStatus,
                                              ret.df.rows[k].RacePace)

\* leader 5400 s, gap 95 s, 55 of 58 laps, pace 92 s: 5771 s
C6_Witness ==
    /\ ReturnedFrom("get_race_data")
    /\ \E k \in 1..Len(ret.df.rows) :
           /\ ret.df.rows[k].FinishStatus = "Lapped"
           /\ ret.df.rows[k].RacePace = Num(92)
           /\ CompletedLaps(call.session, ret.df.rows[k].Driver) = 55
           /\ \E d \in Drivers : CompletedLaps(call.session, d) = 58
           /\ ret.df.rows[k].RaceTime = Num(5771)

---------------------------------------------------------------------------
(* Properties of the season loop                                           *)

\* world with every round after n replaced by a round of kind
ReplaceAfter(world, n, kind) ==
    [sessions |-> [r \in 1..Len(world.sessions) |->
                      IF r <= n THEN world.sessions[r] ELSE kind.sessions],
     ergast |-> [schedule |-> world.ergast.schedule,
                 rounds |-> [r \in 1..Len(world.ergast.rounds) |->
                                IF r <= n THEN world.ergast.rounds[r]
                                ELSE ResultsOf(kind.results, r)]]]

\* the block of round n of a run on world
BlockOf(world, n) ==
    RoundWithFeatures(world, [q \in 1..n |-> RoundData(world, q)], n).frame

\* what the later rounds are replaced by: nothing at all, and full weekends
\* with a race and a sprint
LaterRounds ==
    {[sessions |-> NoWeekend, results |-> "none"],
     [sessions |-> FullWeekend, results |-> "sprint"]}

\* C1: the rows emitted for round n (rolling averages, standings and all)
\* are the rows a run emits for round n on any season that holds the same
\* data for rounds 1..n: the data of the rounds after n does not reach them.
C1_NoLookahead ==
    \A n \in 1..Len(all_rounds) :
        \A kind \in LaterRounds :
            all_rounds[n] = BlockOf(ReplaceAfter(season, n, kind), n)

\* round 1 was emitted with standings while round 2 has results of its own
C1_Witness ==
    /\ Len(all_rounds) >= 1
    /\ all_rounds[1].rows # <<>>
    /\ "Points" \in all_rounds[1].cols
    /\ season.ergast.rounds[2].race.content # <<>>
    /\ season.sessions[2] # NoWeekend

\* the columns each kind of session table brings
SessionColumns(kind) ==
    CASE kind = "Q" -> {"Position_Quali", "QualiLap", "GapToPole"}
      [] kind = "R" -> {"FinishingPosition", "Status", "DNF_Dummy", "FinishStatus",
                        "RaceTime", "RacePace", "GapToFastestRacePace"}
      [] OTHER -> {GapColumn(kind), PositionColumn(kind), PaceColumn(kind)}

SessionKinds == {"FP1", "FP2", "FP3", "Q", "R"}

\* the table of session kind of round r, as its extractor gives it
SessionTable(world, r, kind) ==
    CASE kind = "Q" -> get_quali_data(world.sessions[r].Q)
      [] kind = "R" -> get_race_data(world.sessions[r].R)
      [] OTHER -> get_fp_data(world.sessions[r][kind], kind)

\* C2: an unavailable session is never fatal: the run does not abort, every
\* round up to round_limit is emitted, and the block of a round has the
\* columns of each of its sessions that loaded.
C2_MissingSessionNotFatal ==
    /\ pc # "raised"
    /\ pc = "returned" => Len(all_rounds) = round_limit
    /\ \A r \in 1..Len(all_rounds) : \A kind \in SessionKinds :
           (season.sessions[r][kind].available
                /\ ~IsEmpty(SessionTable(season, r, kind).df))
               => SessionColumns(kind) \subseteq all_rounds[r].cols

\* C7: round_data has exactly one row for each driver of any session table
\* of the round that loaded; the row carries the driver's cells of each
\* table the driver is in, and absent cells (not zeros) for a table the
\* driver is not in.
C7_RoundKeepsEveryDriver ==
    \A r \in 1..Len(cumulative_data) :
        LET record == cumulative_data[r]
            tables == [k \in SessionKinds |-> SessionTable(season, r, k)]
            loaded == {k \in SessionKinds : ~tables[k].raised}
        IN /\ KeysOf(record, "Driver") = UNION {KeysOf(tables[k].df, "Driver") : k \in loaded}
           /\ Len(record.rows) = Cardinality(KeysOf(record, "Driver"))
           /\ \A i \in 1..Len(record.rows) : \A k \in loaded :
                  LET own == RowsOf(tables[k].df, "Driver", record.rows[i].Driver)
                  IN \A c \in SessionColumns(k) :
                         record.rows[i][c] = IF own = <<>> THEN NaOf(c) ELSE own[1][c]

\* a driver of the race who is in no qualifying table is kept, the
\* qualifying cells absent
C7_Witness ==
    \E r \in 1..Len(cumulative_data) :
        /\ {"Position_Quali", "FinishingPosition"} \subseteq cumulative_data[r].cols
        /\ Len(cumulative_data[r].rows) = 3
        /\ \E i \in 1..Len(cumulative_data[r].rows) :
               /\ IsNaN(cumulative_data[r].rows[i].Position_Quali)
               /\ cumulative_data[r].rows[i].FinishingPosition = Num(3)

\* line 252 is reached in round r: the aggregation before it returned
StandingsCalled(history) ==
    /\ ~IsEmpty(Concat(history))
    /\ \A out \in DOMAIN Aggregations : Aggregations[out] \in Concat(history).cols

\* C8: when the standings call of round r raises, the round is emitted all
\* the same, with the rolling averages and the team and without the standings
\* columns, and the loop goes on to round r + 1.
C8_StandingsFailureLocal ==
    \A r \in 1..Len(cumulative_data) :
        (StandingsCalled(SubSeq(cumulative_data, 1, r))
             /\ get_driver_standings(season.ergast, r).raised)
        => /\ Len(all_rounds) >= r
           /\ rnd > r
           /\ (DOMAIN Aggregations \cup {"Team"}) \subseteq all_rounds[r].cols
           /\ {"Points", "ChampPosition"} \cap all_rounds[r].cols = {}
           /\ KeysOf(all_rounds[r], "Driver") = KeysOf(cumulative_data[r], "Driver")
           /\ [what |-> "standings", round |-> r] \in {printed[i] : i \in 1..Len(printed)}
           /\ pc = "returned" =>
                  \A i \in 1..Len(full_season_data.rows) :
                      (full_season_data.rows[i].Round = Num(r)
                           /\ "Points" \in full_season_data.cols)
                      => IsNaN(full_season_data.rows[i].Points)

\* the standings of round 1 failed, round 1 was emitted with rolling
\* averages all the same, and round 2 was emitted after it
C8_Witness ==
    /\ Len(all_rounds) >= 2
    /\ get_driver_standings(season.ergast, 1).raised
    /\ all_rounds[1].rows # <<>>
    /\ "AvgGapToPole" \in all_rounds[1].cols
    /\ "Points" \notin all_rounds[1].cols
    /\ all_rounds[2].rows # <<>>

\* the value of column c for driver d in round q's record, NaN where the
\* record has no such row or column
ValueAt(history, q, d, c) ==
    LET own == RowsOf(history[q], "Driver", d)
    IN IF own = <<>> \/ c \notin history[q].cols THEN NaN ELSE own[1][c]

\* the mean of column c of driver d over the records of rounds 1..r that
\* have a value for it; NaN when none has
MeanOfPresent(history, r, d, c) ==
    LET present == {q \in 1..r : ~IsNaN(ValueAt(history, q, d, c))}
        total == SumSkipNa([q \in 1..r |-> ValueAt(history, q, d, c)])
    IN IF present = {} THEN NaN
       ELSE Q(total.n, total.d * Cardinality(present))

C10_RowPreservation ==
    /\ \A r \in 1..Len(all_rounds) :
           /\ Len(all_rounds[r].rows) = Len(cumulative_data[r].rows)
           /\ \A i \in 1..Len(all_rounds[r].rows) :
                  /\ all_rounds[r].rows[i].Driver = cumulative_data[r].rows[i].Driver
                  /\ all_rounds[r].rows[i].Round = Num(r)
           /\ \A i, j \in 1..Len(all_rounds[r].rows) :
                  i # j => all_rounds[r].rows[i].Driver # all_rounds[r].rows[j].Driver
    /\ pc = "returned" =>
           /\ \A i, j \in 1..Len(full_season_data.rows) :
                  i < j => ~Less(full_season_data.rows[j].Round, full_season_data.rows[i].Round)
           /\ \A r \in 1..Len(all_rounds) :
                  LET block == SelectSeq(full_season_data.rows, LAMBDA x : x.Round = Num(r))
                  IN [i \in 1..Len(block) |-> block[i].Driver]
                         = [i \in 1..Len(all_rounds[r].rows) |-> all_rounds[r].rows[i].Driver]

\* a season returned in which a round of two drivers follows a round of
\* three, the rolling features then covering a driver the round has not
C10_Witness ==
    /\ pc = "returned"
    /\ \E r \in 2..Len(all_rounds) :
           /\ Len(all_rounds[r - 1].rows) = 3
           /\ Len(all_rounds[r].rows) = 2
           /\ "AvgGapToPole" \in all_rounds[r].cols

====
